---- MODULE Spec2Model ----
(***************************************************************************)
(* Model of services/geminiService.ts: the lazily created chat session,    *)
(* the Group A key rotation of sendMessageToGemini and the Group B loop of *)
(* generateMindMapText.  Both revisions of the service are modelled: the   *)
(* rotating one (services/geminiService.ts) and the single-key one         *)
(* (unnamed/part_001).  A JavaScript async function runs to the next await *)
(* without interruption, so every action below is the code between two     *)
(* awaits of one call.                                                     *)
(***************************************************************************)
EXTENDS Integers, Sequences, FiniteSets, TLC

\* ------------------------------------------------------------------ bounds
MaxCalls == 2          \* sendMessageToGemini calls started in a behaviour
MaxMapCalls == 1       \* generateMindMapText calls started in a behaviour

Callers == {"a", "b"}  \* call sites that may have a sendMessageToGemini call in flight

\* ------------------------------------------------------------- vocabulary
Undefined == "undefined"
Null == 0
Variants == {"rotating", "single"}
RotatingEnvNames ==
  {"API_KEY", "VITE_API_KEY", "REACT_APP_API_KEY",
   "API_KEY_A1", "API_KEY_A2", "API_KEY_A3", "API_KEY_B1"}
SingleEnvNames == {"VITE_API_KEY", "API_KEY"}

ConfigErrorMsg == "ERRO DE CONFIGURACAO"
ExhaustedMsg == "ERRO CRITICO: Sistema indisponivel temporariamente. Tente novamente em instantes."
NoAnswerMsg == "Erro: Sem resposta do Mentor."
UnknownMsg == "Erro desconhecido de execucao."
ModelMissingMsg == "ERRO CRITICO: Modelo de IA nao disponivel para esta chave."
OverloadedMsg == "ERRO: O sistema esta sobrecarregado."
SystemErrorMsg == "ERRO DE SISTEMA: Verifique sua conexao ou a configuracao da API Key."
ResponseText == "response.text"
NoResult == "none"
Thrown == "THROWN"     \* the call rejected: it threw to its caller instead of returning
\* A rejection value error.toString().includes(...) cannot be evaluated on:
\* null, undefined, a value with no usable toString.
Nullish == "nullish"
ErrKinds == {"404", "429", "other"}       \* errors, told apart by their toString()
RejectionValues == ErrKinds \cup {Nullish} \* `catch (error: any)`: what a send may reject with
Texts == {ResponseText, ""}

VARIABLES
  variant,               \* which revision of the service is deployed
  PRIMARY_KEY,           \* module constants, computed from the environment at load time
  GROUP_A_KEYS,
  GROUP_B_KEYS,
  sessions,              \* every Chat object created so far: [key, history]
  currentChatSession,    \* the slot: index into sessions, or Null
  currentKeyIndexGroupA, \* 0-based index into GROUP_A_KEYS
  pc,                    \* per call site: "idle" | "awaitSend" | "awaitHist"
  attempt,               \* per call site: the loop variable of the fallback loop
  sess,                  \* per call site: the session the pending send was issued on
  hsess,                 \* per call site: `session` of the fallback procedure
  prevHist,              \* per call site: value of session.getHistory()
  result,                \* per call site: what the last call returned
  callId,                \* per call site: number of the call in flight
  sends,                 \* per call site: send requests issued by the call
  failedKeys,            \* per call site: the keys a send of the call failed on
  startIndex,            \* per call site: key index in force for the call's first attempt
  calls,                 \* sendMessageToGemini calls started
  completed,             \* call numbers whose send resolved, in order
  replaced,              \* sessions overwritten in the slot
  settled,               \* per call site: how the call's latest await settled
  inspected,             \* per call site: the rejection value the catch block called toString() on
  mpc,                   \* generateMindMapText: "idle" | "awaitGen"
  mpos,                  \* generateMindMapText: position in GROUP_B_KEYS (1-based)
  mtried,                \* generateMindMapText: keys requested by the call, in order
  mresult,               \* generateMindMapText: last return value
  mapCalls               \* generateMindMapText calls started

chatVars == <<sessions, currentChatSession, currentKeyIndexGroupA>>
callVars == <<pc, attempt, sess, hsess, prevHist, result, callId, sends,
              failedKeys, startIndex, calls, completed, replaced, settled,
              inspected>>
mapVars == <<mpc, mpos, mtried, mresult, mapCalls>>
config == <<variant, PRIMARY_KEY, GROUP_A_KEYS, GROUP_B_KEYS>>
vars == <<config, chatVars, callVars, mapVars>>

\* ------------------------------------------------------------ key tables
\* The value an environment variable holds when it is set.  The three names the
\* primary key is looked up under are aliases of one deployment secret.
EnvValue(name) ==
  IF name \in {"API_KEY", "VITE_API_KEY", "REACT_APP_API_KEY"} THEN "key-primary"
  ELSE IF name = "API_KEY_A1" THEN "key-a1"
  ELSE IF name = "API_KEY_A2" THEN "key-a2"
  ELSE IF name = "API_KEY_A3" THEN "key-a3"
  ELSE "key-b1"

getEnv(env, key) == IF key \in env THEN EnvValue(key) ELSE Undefined

OrElse(a, b) == IF a # Undefined THEN a ELSE b

getPrimaryApiKey(env) == OrElse(getEnv(env, "VITE_API_KEY"), getEnv(env, "API_KEY"))

PrimaryKey(v, env) ==
  IF v = "rotating"
  THEN OrElse(getEnv(env, "API_KEY"),
              OrElse(getEnv(env, "VITE_API_KEY"), getEnv(env, "REACT_APP_API_KEY")))
  ELSE getPrimaryApiKey(env)

FilterBoolean(s) == SelectSeq(s, LAMBDA k : k # Undefined)

GroupAKeys(v, env) ==
  IF v = "rotating"
  THEN FilterBoolean(<<OrElse(getEnv(env, "API_KEY_A1"), PrimaryKey(v, env)),
                       getEnv(env, "API_KEY_A2"), getEnv(env, "API_KEY_A3")>>)
  ELSE FilterBoolean(<<PrimaryKey(v, env)>>)

GroupBKeys(v, env) ==
  IF v = "rotating"
  THEN FilterBoolean(<<OrElse(getEnv(env, "API_KEY_B1"), PrimaryKey(v, env))>>)
  ELSE FilterBoolean(<<PrimaryKey(v, env)>>)

NumA == Len(GROUP_A_KEYS)

\* GROUP_A_KEYS[i] with the 0-based index of the code
KeyA(i) == IF i + 1 \in 1..NumA THEN GROUP_A_KEYS[i + 1] ELSE Undefined

\* ------------------------------------------------------------- sessions
createSession(apiKey, history) == [key |-> apiKey, history |-> history]

\* The module state a synchronous stretch of code works on.
Heap == [sessions |-> sessions, cur |-> currentChatSession, idx |-> currentKeyIndexGroupA]

Install(h, s, i) ==
  [sessions |-> Append(h.sessions, s), cur |-> Len(h.sessions) + 1, idx |-> i]

\* A slip: the `if (!currentChatSession)` guard is missing.
getOrInitSessionEager(h) ==
  Install(h, createSession(OrElse(KeyA(0), "MISSING_KEY"), <<>>), 0)

getOrInitSession(h) ==
  IF h.cur # Null THEN h
  ELSE IF variant = "rotating"
       THEN Install(h, createSession(OrElse(KeyA(0), "MISSING_KEY"), <<>>), 0)
       ELSE IF KeyA(0) # Undefined
            THEN Install(h, createSession(KeyA(0), <<>>), h.idx)
            ELSE h

\* ---------------------------------------------------------------- Init
Init ==
  /\ variant \in Variants
  /\ \E env \in SUBSET (IF variant = "rotating" THEN RotatingEnvNames ELSE SingleEnvNames) :
       /\ PRIMARY_KEY = PrimaryKey(variant, env)
       /\ GROUP_A_KEYS = GroupAKeys(variant, env)
       /\ GROUP_B_KEYS = GroupBKeys(variant, env)
  /\ sessions = <<>>
  /\ currentChatSession = Null
  /\ currentKeyIndexGroupA = 0
  /\ pc = [c \in Callers |-> "idle"]
  /\ attempt = [c \in Callers |-> 0]
  /\ sess = [c \in Callers |-> Null]
  /\ hsess = [c \in Callers |-> Null]
  /\ prevHist = [c \in Callers |-> <<>>]
  /\ result = [c \in Callers |-> NoResult]
  /\ callId = [c \in Callers |-> 0]
  /\ sends = [c \in Callers |-> 0]
  /\ failedKeys = [c \in Callers |-> {}]
  /\ startIndex = [c \in Callers |-> 0]
  /\ calls = 0
  /\ completed = <<>>
  /\ replaced = {}
  /\ settled = [c \in Callers |-> "none"]
  /\ inspected = [c \in Callers |-> "none"]
  /\ mpc = "idle"
  /\ mpos = 0
  /\ mtried = <<>>
  /\ mresult = NoResult
  /\ mapCalls = 0

\* ------------------------------------------------- sendMessageToGemini
\* Writes the module state a synchronous stretch of code ends with.
Commit(h) ==
  /\ sessions' = h.sessions
  /\ currentChatSession' = h.cur
  /\ currentKeyIndexGroupA' = h.idx
  /\ replaced' = IF currentChatSession # Null /\ h.cur # currentChatSession
                 THEN replaced \cup {currentChatSession}
                 ELSE replaced

\* `return msg` of call c: the call's locals go out of scope.
Return(c, msg) ==
  /\ result' = [result EXCEPT ![c] = msg]
  /\ pc' = [pc EXCEPT ![c] = "idle"]
  /\ attempt' = [attempt EXCEPT ![c] = 0]
  /\ sess' = [sess EXCEPT ![c] = Null]
  /\ callId' = [callId EXCEPT ![c] = 0]
  /\ startIndex' = [startIndex EXCEPT ![c] = 0]

\* A slip: the key check is missing.
KeyCheckSkipped == FALSE

\* The key check that opens sendMessageToGemini.
KeyCheckFails ==
  IF variant = "rotating" THEN NumA = 0 ELSE PRIMARY_KEY = Undefined

\* A slip: the `session` of the call's earlier attempt is kept for the retry.
SendTargetStale(c, h) == IF sess[c] # Null THEN sess[c] ELSE h.cur

\* `const session = getOrInitSession()` of the try block: the session the send goes to.
SendTarget(c, h) == h.cur

\* try { session = getOrInitSession(); await session.sendMessage(...) }
\* k is the bookkeeping of the call: its number, its first key index, its sends so far.
TryAttempt(c, h, att, k) ==
  LET h2 == getOrInitSession(h) IN
  /\ Commit(h2)
  /\ IF SendTarget(c, h2) = Null
     THEN /\ Return(c, SystemErrorMsg)
          /\ sends' = [sends EXCEPT ![c] = k.sent]
     ELSE /\ pc' = [pc EXCEPT ![c] = "awaitSend"]
          /\ sess' = [sess EXCEPT ![c] = SendTarget(c, h2)]
          /\ attempt' = [attempt EXCEPT ![c] = att]
          /\ sends' = [sends EXCEPT ![c] = k.sent + 1]
          /\ callId' = [callId EXCEPT ![c] = k.id]
          /\ startIndex' = [startIndex EXCEPT ![c] = k.start]
          /\ result' = [result EXCEPT ![c] = NoResult]

\* The loop test `attempt < GROUP_A_KEYS.length`
LoopTest(att) == att < NumA

\* One pass through the head of the fallback loop (the single-key revision has no loop).
LoopEntry(c, h, att, k) ==
  IF variant = "rotating" /\ ~LoopTest(att)
  THEN /\ Commit(h)
       /\ Return(c, UnknownMsg)
       /\ sends' = [sends EXCEPT ![c] = k.sent]
  ELSE TryAttempt(c, h, att, k)

Start(c) ==
  /\ pc[c] = "idle"
  /\ calls < MaxCalls
  /\ calls' = calls + 1
  /\ failedKeys' = [failedKeys EXCEPT ![c] = {}]
  /\ settled' = [settled EXCEPT ![c] = "none"]
  /\ inspected' = [inspected EXCEPT ![c] = "none"]
  /\ IF KeyCheckFails
     THEN /\ Return(c, ConfigErrorMsg)
          /\ sends' = [sends EXCEPT ![c] = 0]
          /\ UNCHANGED <<chatVars, replaced>>
     ELSE LoopEntry(c, Heap, 0,
                    [id |-> calls + 1, start |-> currentKeyIndexGroupA, sent |-> 0])
  /\ UNCHANGED <<config, hsess, prevHist, completed, mapVars>>

\* A slip: the text is returned without the fallback string.
ReplyForRaw(text) == text

\* `response.text || "Erro: Sem resposta do Mentor."`
ReplyFor(text) == IF text = "" THEN NoAnswerMsg ELSE text

\* The send resolves: the Chat object records the exchange and the call returns.
SendResolve(c) ==
  /\ pc[c] = "awaitSend"
  /\ \E text \in Texts :
       /\ Return(c, ReplyFor(text))
       /\ settled' = [settled EXCEPT ![c] = IF text = "" THEN "empty" ELSE "text"]
  /\ sessions' = [sessions EXCEPT ![sess[c]].history = Append(@, callId[c])]
  /\ completed' = Append(completed, callId[c])
  /\ UNCHANGED <<config, currentChatSession, currentKeyIndexGroupA, hsess,
                 prevHist, sends, failedKeys, calls, replaced, inspected, mapVars>>

\* A slip: the exhaustion test is off by one.
IsLastAttemptEarly(att) == att = NumA - 2

\* `if (attempt === GROUP_A_KEYS.length - 1)`
IsLastAttempt(att) == att = NumA - 1

\* `const session = getOrInitSession()` of the fallback procedure
FallbackSession(c, h) == h.cur

\* The message the catch block of the single-key revision picks from error.toString().
SingleFailureMsg(err) ==
  IF err = "404" THEN ModelMissingMsg
  ELSE IF err = "429" THEN OverloadedMsg
  ELSE SystemErrorMsg

\* An exception leaves call c: the promise of the call rejects, its locals go out of scope.
Throw(c) == Return(c, Thrown)

\* The catch block of the single-key revision, entered with the value the send
\* rejected with.  `error.toString()` on null or undefined is a TypeError thrown
\* inside the catch block, which nothing catches.
SingleCatch(c, err) ==
  IF err = Nullish THEN Throw(c) ELSE Return(c, SingleFailureMsg(err))

\* A slip: exhaustion drops the session, to start over with the first key.
ExhaustedWithReset(c) ==
  /\ Commit([sessions |-> sessions, cur |-> Null, idx |-> 0])
  /\ Return(c, ExhaustedMsg)
  /\ UNCHANGED <<hsess, prevHist>>

\* The last attempt failed: log and `return "ERRO CRITICO..."`.
Exhausted(c) ==
  /\ Return(c, ExhaustedMsg)
  /\ UNCHANGED <<chatVars, replaced, hsess, prevHist>>

\* The send rejects: the catch block up to `await session.getHistory()`.
\* The rotating revision only logs the rejection value.
SendReject(c) ==
  /\ pc[c] = "awaitSend"
  /\ failedKeys' = [failedKeys EXCEPT ![c] = @ \cup {sessions[sess[c]].key}]
  /\ settled' = [settled EXCEPT ![c] = "sendError"]
  /\ IF variant = "single"
     THEN /\ \E err \in RejectionValues :
               /\ SingleCatch(c, err)
               /\ inspected' = [inspected EXCEPT ![c] = err]
          /\ UNCHANGED <<chatVars, replaced, hsess, prevHist>>
     ELSE /\ UNCHANGED inspected
          /\ IF IsLastAttempt(attempt[c])
             THEN Exhausted(c)
             ELSE LET h2 == getOrInitSession(Heap)
                      s == FallbackSession(c, h2)
                  IN /\ Commit(h2)
                     /\ hsess' = [hsess EXCEPT ![c] = s]
                     /\ prevHist' = [prevHist EXCEPT ![c] = h2.sessions[s].history]
                     /\ pc' = [pc EXCEPT ![c] = "awaitHist"]
                     /\ UNCHANGED <<attempt, sess, result, callId, startIndex>>
  /\ UNCHANGED <<config, sends, calls, completed, mapVars>>

\* A slip: the index stops at the last key instead of wrapping.
NextKeyIndexNoWrap(i) == IF i + 1 < NumA THEN i + 1 ELSE i

\* A slip: the modulo is missing.
NextKeyIndexNoMod(i) == i + 1

\* `(currentKeyIndexGroupA + 1) % GROUP_A_KEYS.length`
NextKeyIndex(i) == (i + 1) % NumA

\* A slip: the loop variable is not advanced.
NextAttemptStuck(att) == att

\* `attempt++`
NextAttempt(att) == att + 1

\* Steps 2 to 4 of the fallback procedure with the history that was recovered,
\* then the next pass of the loop, up to its send.
FallbackRetry(c, previousHistory) ==
  LET idx2 == NextKeyIndex(currentKeyIndexGroupA)
      nextKey == KeyA(idx2)
      h1 == Install(Heap, createSession(nextKey, previousHistory), idx2)
  IN LoopEntry(c, h1, NextAttempt(attempt[c]),
               [id |-> callId[c], start |-> startIndex[c], sent |-> sends[c]])

\* A slip: getHistory is awaited outside a try block, and its failure ends the call.
AfterHistoryReadAbort(c, ok) ==
  IF ok
  THEN FallbackRetry(c, prevHist[c])
  ELSE /\ Return(c, SystemErrorMsg)
       /\ UNCHANGED <<chatVars, replaced, sends>>

\* `try { previousHistory = await session.getHistory() } catch { ... }` and what follows:
\* ok is whether the read returned; when it threw, previousHistory stays [].
AfterHistoryRead(c, ok) ==
  FallbackRetry(c, IF ok THEN prevHist[c] ELSE <<>>)

\* The awaited history read settles.
\* outcomes: whether `await session.getHistory()` may return (TRUE) and may throw (FALSE).
HistStep(c, outcomes) ==
  /\ pc[c] = "awaitHist"
  /\ \E ok \in outcomes :
       /\ AfterHistoryRead(c, ok)
       /\ settled' = [settled EXCEPT ![c] = IF ok THEN "history" ELSE "historyError"]
  /\ hsess' = [hsess EXCEPT ![c] = Null]
  /\ prevHist' = [prevHist EXCEPT ![c] = <<>>]
  /\ UNCHANGED <<config, failedKeys, calls, completed, inspected, mapVars>>

HistResolve(c) == HistStep(c, BOOLEAN)

\* getHistory of a Chat object that never throws.
HistReturn(c) == HistStep(c, {TRUE})

\* ------------------------------------------------- generateMindMapText
MapNull == "null"

\* generateMindMapText touches none of the chat state.
MapFrame == UNCHANGED <<chatVars, callVars>>

MapReturn(v) ==
  /\ mresult' = v
  /\ mpc' = "idle"
  /\ mpos' = 0
  /\ MapFrame

\* A slip: the request is sent through the chat session.
MapRequestOnChat(pos, tried) ==
  /\ mpc' = "awaitGen"
  /\ mpos' = pos
  /\ mtried' = Append(tried, GROUP_B_KEYS[pos])
  /\ mresult' = NoResult
  /\ Commit(getOrInitSession(Heap))
  /\ UNCHANGED <<pc, attempt, sess, hsess, prevHist, result, callId, sends,
                 failedKeys, startIndex, calls, completed, settled, inspected>>

\* `ai.models.generateContent(...)` with the key at position pos of GROUP_B_KEYS
MapRequest(pos, tried) ==
  /\ mpc' = "awaitGen"
  /\ mpos' = pos
  /\ mtried' = Append(tried, GROUP_B_KEYS[pos])
  /\ mresult' = NoResult
  /\ MapFrame

\* A slip: a failed request is repeated with the first key.
MapLoopRepeat(pos, tried) ==
  IF Len(GROUP_B_KEYS) > 0
  THEN MapRequest(1, tried)
  ELSE MapReturn(MapNull) /\ mtried' = tried

\* `for (const key of GROUP_B_KEYS)`: the pass for position pos, or the final `return null`
MapLoop(pos, tried) ==
  IF pos <= Len(GROUP_B_KEYS)
  THEN MapRequest(pos, tried)
  ELSE MapReturn(MapNull) /\ mtried' = tried

MapStart ==
  /\ mpc = "idle"
  /\ mapCalls < MaxMapCalls
  /\ mapCalls' = mapCalls + 1
  /\ IF variant = "rotating"
     THEN MapLoop(1, <<>>)
     ELSE IF PRIMARY_KEY = Undefined
          THEN MapReturn(MapNull) /\ mtried' = <<>>
          ELSE MapRequest(1, <<>>)
  /\ UNCHANGED config

\* `return response.text || null`
MapResolve ==
  /\ mpc = "awaitGen"
  /\ \E text \in Texts : MapReturn(IF text = "" THEN MapNull ELSE text)
  /\ UNCHANGED <<config, mtried, mapCalls>>

\* The request throws: the catch block, then the next key if there is one.
MapReject ==
  /\ mpc = "awaitGen"
  /\ IF variant = "rotating"
     THEN MapLoop(mpos + 1, mtried)
     ELSE MapReturn(MapNull) /\ UNCHANGED mtried
  /\ UNCHANGED <<config, mapCalls>>

\* ------------------------------------------------------- specifications
Idle == \A c \in Callers : pc[c] = "idle"

\* A call that starts while no other call is in flight.
StartAlone(c) == Idle /\ Start(c)

CallStep(c) == SendResolve(c) \/ SendReject(c) \/ HistResolve(c)

Next ==
  \/ \E c \in Callers : Start(c)
  \/ \E c \in Callers : SendResolve(c)
  \/ \E c \in Callers : SendReject(c)
  \/ \E c \in Callers : HistResolve(c)
  \/ MapStart
  \/ MapResolve
  \/ MapReject

NextSeq ==
  \/ \E c \in Callers : StartAlone(c)
  \/ \E c \in Callers : SendResolve(c)
  \/ \E c \in Callers : SendReject(c)
  \/ \E c \in Callers : HistResolve(c)
  \/ MapStart
  \/ MapResolve
  \/ MapReject

NextReadable ==
  \/ \E c \in Callers : Start(c)
  \/ \E c \in Callers : SendResolve(c)
  \/ \E c \in Callers : SendReject(c)
  \/ \E c \in Callers : HistReturn(c)
  \/ MapStart
  \/ MapResolve
  \/ MapReject

\* Calls may overlap.
Spec == Init /\ [][Next]_vars

\* No sendMessageToGemini call starts while another is in flight.
SpecSeq == Init /\ [][NextSeq]_vars

\* Calls may overlap; reading a session's history never fails.
SpecReadable == Init /\ [][NextReadable]_vars

\* sendMessageToGemini alone: generateMindMapText shares no state with it.
NextChat ==
  \/ \E c \in Callers : Start(c)
  \/ \E c \in Callers : SendResolve(c)
  \/ \E c \in Callers : SendReject(c)
  \/ \E c \in Callers : HistResolve(c)

\* Calls may overlap, and every send request and every awaited history read
\* eventually resolves or rejects.
FairSpec ==
  /\ Init
  /\ [][NextChat]_vars
  /\ \A c \in Callers : WF_vars(CallStep(c))

\* ------------------------------------------------------------- claims
Range(s) == {s[i] : i \in 1..Len(s)}

\* s restricted to the elements of set, in the order of s
Restrict(s, set) == SelectSeq(s, LAMBDA x : x \in set)

NoKeyConfigured ==
  IF variant = "rotating" THEN GROUP_A_KEYS = <<>> ELSE PRIMARY_KEY = Undefined

\* Call site c issues a send request in this step.
SendIssued(c) == pc[c] # "awaitSend" /\ pc'[c] = "awaitSend"

\* C1: when calls do not overlap, a call returns the exhaustion string only if
\* it issued one send per configured Group A key and a send of that call failed
\* on every one of them.
C1_ExhaustedOnlyAfterEveryKeyFailed ==
  \A c \in Callers :
    result[c] = ExhaustedMsg =>
      /\ NumA >= 1
      /\ failedKeys[c] = Range(GROUP_A_KEYS)
      /\ sends[c] = NumA

C1_Witness ==
  \E c \in Callers :
    result[c] = ExhaustedMsg /\ NumA = 3 /\ Cardinality(failedKeys[c]) = 3

C3_HistoryContinuity ==
  currentChatSession # Null =>
    Restrict(sessions[currentChatSession].history, Range(completed)) = completed

\* C4: every send is issued on the session in the slot at that moment, and
\* never on a session a rotation has replaced.
C4_SendsGoToCurrentSession ==
  [][\A c \in Callers :
       SendIssued(c) =>
         /\ sess'[c] = currentChatSession'
         /\ sess'[c] \notin replaced']_vars

C4_Witness ==
  \E c, d \in Callers :
    /\ pc[c] = "awaitSend" /\ pc[d] = "awaitSend"
    /\ sess[d] \in replaced
    /\ sess[c] = currentChatSession /\ attempt[c] >= 1

\* C5: with no API key configured every call returns the configuration error,
\* no session is created, no request is issued, and the slot and the key
\* index keep their initial values.
C5_NoKeyReturnsConfigError ==
  NoKeyConfigured =>
    /\ sessions = <<>> /\ currentChatSession = Null /\ currentKeyIndexGroupA = 0
    /\ \A c \in Callers :
         /\ pc[c] = "idle" /\ sends[c] = 0
         /\ result[c] \in {NoResult, ConfigErrorMsg}
    /\ (calls > 0 => \E c \in Callers : result[c] = ConfigErrorMsg)

C5_Witness ==
  NoKeyConfigured /\ calls = MaxCalls /\ \A c \in Callers : result[c] = ConfigErrorMsg

\* C6: the slot is empty exactly until the first call that passes the key
\* check; the first session is created with GROUP_A_KEYS[0], no history and
\* key index 0; a call that finds a session sends on it, and a send that
\* resolves creates no session.
C6_LazySession ==
  /\ [](currentChatSession = Null <=> (calls = 0 \/ NoKeyConfigured))
  /\ [][sessions = <<>> /\ sessions' # <<>> =>
          /\ sessions' = <<[key |-> GROUP_A_KEYS[1], history |-> <<>>]>>
          /\ currentChatSession' = 1
          /\ currentKeyIndexGroupA' = 0]_vars
  /\ [][\A c \in Callers :
          /\ (pc[c] = "idle" /\ pc'[c] = "awaitSend" /\ currentChatSession # Null) =>
               /\ sess'[c] = currentChatSession
               /\ UNCHANGED chatVars
          /\ (pc[c] = "awaitSend" /\ result'[c] \in {ResponseText, NoAnswerMsg}) =>
               /\ Len(sessions') = Len(sessions)
               /\ UNCHANGED <<currentChatSession, currentKeyIndexGroupA>>]_vars

C6_Witness ==
  \E c \in Callers :
    /\ result[c] = ResponseText
    /\ Len(sessions) = 1
    /\ Len(sessions[1].history) = 2

\* C7: generateMindMapText requests the Group B keys in list order, at most
\* once each, returns the text of the first request that does not throw (null
\* when that text is empty) and null when every key fails or none is configured.
C7_MindMapLoop ==
  /\ [](/\ Len(mtried) <= Len(GROUP_B_KEYS)
        /\ mtried = SubSeq(GROUP_B_KEYS, 1, Len(mtried))
        /\ (mpc = "awaitGen" => mtried # <<>> /\ mresult = NoResult)
        /\ (mpc = "idle" /\ mapCalls > 0 => mresult \in {ResponseText, MapNull})
        /\ (GROUP_B_KEYS = <<>> => mtried = <<>> /\ mresult # ResponseText))
  /\ [][mpc = "awaitGen" /\ mpc' = "idle" =>
          /\ mresult' \in {ResponseText, MapNull}
          /\ mtried' = mtried]_vars

C7_Witness ==
  mpc = "idle" /\ mresult = ResponseText /\ mtried = GROUP_B_KEYS

\* C8: also when calls overlap, a call that returns the exhaustion string has
\* had a send fail on every configured Group A key.
C8_OverlapExhaustedTriedEveryKey ==
  \A c \in Callers :
    result[c] = ExhaustedMsg =>
      \A i \in 1..NumA : GROUP_A_KEYS[i] \in failedKeys[c]

\* C9: in a call no other call overlaps, the k-th attempt is sent on a session
\* created with GROUP_A_KEYS[(i0 + k) mod n], i0 the key index at the call's start.
C9_AttemptKeyOrder ==
  \A c \in Callers :
    pc[c] = "awaitSend" =>
      /\ attempt[c] < NumA
      /\ sessions[sess[c]].key = KeyA((startIndex[c] + attempt[c]) % NumA)

C9_Witness ==
  \E c \in Callers :
    /\ pc[c] = "awaitSend"
    /\ NumA = 2
    /\ startIndex[c] = 1 /\ attempt[c] = 1
    /\ currentKeyIndexGroupA = 0

\* C10: the session whose history the fallback procedure reads is the session
\* the failed send was issued on.
C10_HistoryReadFromFailedSession ==
  \A c \in Callers : pc[c] = "awaitHist" => hsess[c] = sess[c]

\* The awaited history read of call site c settles in this step.
HistorySettles(c) == pc[c] = "awaitHist" /\ pc'[c] # "awaitHist"

\* C11: when the history read of a fallback throws, the key is still rotated,
\* the replacement session is created with the next key and an empty history
\* and installed, and the send is retried on it.
C11_HistoryFailureKeepsFallback ==
  [][\A c \in Callers :
       (HistorySettles(c) /\ settled'[c] = "historyError") =>
         /\ currentKeyIndexGroupA' = (currentKeyIndexGroupA + 1) % NumA
         /\ sessions' = Append(sessions,
                               [key |-> KeyA(currentKeyIndexGroupA'), history |-> <<>>])
         /\ currentChatSession' = Len(sessions')
         /\ pc'[c] = "awaitSend"
         /\ sess'[c] = currentChatSession'
         /\ attempt'[c] = attempt[c] + 1
         /\ sends'[c] = sends[c] + 1]_vars

C11_Witness ==
  \E c \in Callers :
    /\ settled[c] = "historyError" /\ pc[c] = "awaitSend"
    /\ sess[c] = currentChatSession
    /\ sessions[currentChatSession].history = <<>>
    /\ \E s \in replaced : sessions[s].history # <<>>

\* C12: the step that returns the exhaustion string changes neither the key
\* index nor the slot nor any session: the slot still holds the session the
\* last send was issued on, the index is that of its key, and a call that
\* starts on a filled slot sends on that session with no rotation.
C12_ExhaustionLeavesChatState ==
  [][\A c \in Callers :
       /\ (pc[c] = "awaitSend" /\ result'[c] = ExhaustedMsg) =>
            /\ UNCHANGED chatVars
            /\ currentChatSession' = sess[c]
            /\ KeyA(currentKeyIndexGroupA') = sessions[sess[c]].key
            /\ sessions[sess[c]].key \in failedKeys'[c]
       /\ (pc[c] = "idle" /\ pc'[c] = "awaitSend" /\ currentChatSession # Null) =>
            /\ UNCHANGED chatVars
            /\ sess'[c] = currentChatSession
            /\ sessions[sess'[c]].key = KeyA(currentKeyIndexGroupA)]_vars

\* C13: once the slot holds a session it never becomes empty again, whatever
\* sendMessageToGemini and generateMindMapText calls follow, and the key index
\* goes back to 0 only by the wrap of a rotation from the last key.
C13_SlotNeverClearedIndexNeverReset ==
  [][/\ (currentChatSession # Null => currentChatSession' # Null)
     /\ (currentKeyIndexGroupA # 0 /\ currentKeyIndexGroupA' = 0) =>
          /\ currentKeyIndexGroupA = NumA - 1
          /\ \E c \in Callers : HistorySettles(c) /\ pc'[c] = "awaitSend"
          /\ Len(sessions') = Len(sessions) + 1]_vars

C13_Witness ==
  /\ NumA = 2
  /\ currentKeyIndexGroupA = 0
  /\ Len(sessions) = 3
  /\ mapCalls > 0
  /\ \E c \in Callers : result[c] = ExhaustedMsg

\* C14: in every state the key index is within GROUP_A_KEYS when keys are
\* configured, and the session in the slot was created with the key at it.
C14_IndexAndSessionAgree ==
  /\ (NumA > 0 => currentKeyIndexGroupA \in 0..(NumA - 1))
  /\ (currentChatSession # Null =>
        sessions[currentChatSession].key = KeyA(currentKeyIndexGroupA))

C14_Witness ==
  \E c, d \in Callers :
    /\ pc[c] = "awaitHist" /\ pc[d] = "awaitSend"
    /\ currentKeyIndexGroupA = 2
    /\ sessions[sess[c]].key # KeyA(currentKeyIndexGroupA)

\* C15: a rotation away from key index i is triggered by the failure of a send
\* issued on a session created with GROUP_A_KEYS[i].
C15_RotationPastFailedKey ==
  [][\A c \in Callers :
       (HistorySettles(c) /\ currentKeyIndexGroupA' # currentKeyIndexGroupA) =>
         sessions[sess[c]].key = KeyA(currentKeyIndexGroupA)]_vars

\* C16: a send that resolves with an empty text ends the call with
\* 'Erro: Sem resposta do Mentor.': no rotation, no new session, no further send.
C16_EmptyTextIsNotAFailure ==
  [][\A c \in Callers :
       (pc[c] = "awaitSend" /\ settled'[c] = "empty") =>
         /\ result'[c] = NoAnswerMsg
         /\ pc'[c] = "idle"
         /\ Len(sessions') = Len(sessions)
         /\ sends'[c] = sends[c]
         /\ failedKeys'[c] = failedKeys[c]
         /\ UNCHANGED <<currentChatSession, currentKeyIndexGroupA, replaced>>]_vars

C16_Witness ==
  \E c \in Callers :
    /\ settled[c] = "empty" /\ result[c] = NoAnswerMsg
    /\ NumA = 3 /\ sends[c] = 1

\* C17: no step of generateMindMapText changes the slot, the key index, a
\* session or anything a sendMessageToGemini call keeps, also while such a
\* call is suspended.
C17_MindMapLeavesChatState ==
  [][mapVars' # mapVars => UNCHANGED <<chatVars, callVars>>]_vars

C17_Witness ==
  /\ mpc = "idle" /\ mresult = ResponseText
  /\ \E c \in Callers : pc[c] = "awaitHist"

====
